---- MODULE Spec2Model ----
(***************************************************************************)
(* Model of the Local AI Chat desktop client: the session store, the       *)
(* transcript (chat_history.controls), the background reader thread of     *)
(* process_ai_response and the UI loop's task queue (page.run_task).       *)
(*                                                                         *)
(* The repository holds two copies of the application:                     *)
(*   "main" : src/Local-AI-Chat/Local-AI-Chat.py                           *)
(*   "copy" : src/unnamed/part_000  ("Local-AI-Chat copy.py")              *)
(* The variable app says which copy is running; it never changes.          *)
(*                                                                         *)
(* Texts are sequences of one-character strings, so that concatenation,    *)
(* prefixes and the per-character loop of the main copy are explicit.      *)
(***************************************************************************)
EXTENDS Integers, Sequences, FiniteSets, TLC

\* ------------------------------------------------------------------ bounds
\* Number of sends that pass validation (one background reader each).
MaxStreams == 2
\* Number of sessions the store may hold at once.
MaxSessions == 2
\* Size of one response stream at most: the characters of its text
\* fragments plus one for every other line.
MaxResponse == 3
\* Number of user operations that change the state, other than accepted
\* sends, in one run (new chat, load, delete, clear, send without a model,
\* closing the window); an operation that leaves everything as it is does
\* not count.
MaxUserOps == 3

Streams == 1..MaxStreams

\* Python's None for current_chat_id (session ids are len + 1 >= 1).
None == 0

Apps == {"main", "copy"}

\* ------------------------------------------------------------------ inputs
\* Values of the model dropdown after load_models: "" when the server could
\* not be reached (no options, no value), else the first listed model.
Models == {"", "llama3"}

\* What the user may have typed into chat_input when pressing Send.
PromptInputs == { <<" ">>, <<" ", "h", "i">> }

\* The "response" texts a text fragment may carry.
FragTexts == { <<"a">>, <<"b", "c">> }

\* The message of an error fragment.
ErrMsgs == { <<"model crashed">> }

\* One line of the response stream, as iter_lines yields it:
\*   text  : {"response": t}        error : {"error": m}
\*   bad   : text that json.loads rejects (JSONDecodeError)
\*   undecodable : bytes that line.decode('utf-8') rejects (UnicodeDecodeError)
TextLines == { [kind |-> "text", text |-> t] : t \in FragTexts }
ErrorLines == { [kind |-> "error", text |-> m] : m \in ErrMsgs }
BadLines == { [kind |-> "bad", text |-> <<>>], [kind |-> "undecodable", text |-> <<>>] }
Lines == TextLines \cup ErrorLines \cup BadLines
\* The text fragments of one character.
ShortTextLines == { l \in TextLines : Len(l.text) = 1 }

\* ------------------------------------------------------------------ state
VARIABLES
    app,                    \* which copy of the application runs
    current_model,          \* self.current_model.current.value
    chat_sessions,          \* self.chat_sessions.value : list of sessions
    current_chat_id,        \* self.current_chat_id.value
    chat_history,           \* self.chat_history.controls : the transcript
    ai_thinking_container,  \* main: stream whose spinner the attribute holds
    ai_message_container,   \* main: object id of self.ai_message_container
    nobj,                   \* number of AI message containers created so far
    tasks,                  \* coroutines queued on the UI loop by run_task
    nstreams,               \* number of reader threads started so far
    nops,                   \* number of other user operations so far
    pc,                     \* per stream: position of the reader thread
    text,                   \* per stream: full_response / text accumulated
    chars,                  \* per stream (main): characters of the current
                            \* fragment not yet appended
    first_chunk,            \* per stream (main): first_chunk[0]
    e_bound,                \* per stream: the except clause's variable e is
                            \* still bound (the reader is inside the clause)
    file,                   \* chat_history.json in the working directory
    disk,                   \* what the file system does on open and write
    running,                \* the application process: "off", "on", "crashed"
    \* ---- history variables (record what happened; never read by the code)
    recv,                   \* per stream: the lines received so far
    sess_of,                \* per stream: current_chat_id when it was sent
    committed,              \* per stream: the ai messages it appended
    shown,                  \* per stream: texts it wrote into the transcript
    stable,                 \* per stream: active session untouched since send
    torn,                   \* per stream: view cleared / active session
                            \* deleted while the stream was Streaming
    deleted,                \* per stream: active session deleted while Streaming
    cleared,                \* per stream: Clear Chat pressed while Streaming
    late_ui,                \* per stream: it touched the transcript after torn
    errors_shown,           \* per stream: error entries it put in the transcript
    result,                 \* per stream: how the reader thread ended
    last_append             \* how the latest add_message_to_session call ended

code_vars == << app, current_model, chat_sessions, current_chat_id, chat_history,
                ai_thinking_container, ai_message_container, nobj, tasks,
                nstreams, nops, pc, text, chars, first_chunk, e_bound >>
persist_vars == << file, disk, running >>
hist_vars == << recv, sess_of, committed, shown, stable, torn, deleted, cleared, late_ui,
                errors_shown, result, last_append >>
vars == << code_vars, persist_vars, hist_vars >>

\* ------------------------------------------------------------------ helpers
RECURSIVE Concat(_)
\* ''.join(list of texts)
Concat(ss) == IF ss = <<>> THEN <<>> ELSE Head(ss) \o Concat(Tail(ss))

IsPrefix(p, t) == Len(p) <= Len(t) /\ SubSeq(t, 1, Len(p)) = p

RECURSIVE LStrip(_)
LStrip(t) == IF t # <<>> /\ Head(t) = " " THEN LStrip(Tail(t)) ELSE t

RECURSIVE RStrip(_)
RStrip(t) == IF t # <<>> /\ t[Len(t)] = " " THEN RStrip(SubSeq(t, 1, Len(t) - 1))
             ELSE t

\* str.strip()
Strip(t) == RStrip(LStrip(t))

\* The texts of the text fragments among the lines, in arrival order.
RECURSIVE TextsOf(_)
TextsOf(ls) ==
    IF ls = <<>> THEN <<>>
    ELSE IF Head(ls).kind = "text" THEN <<Head(ls).text>> \o TextsOf(Tail(ls))
         ELSE TextsOf(Tail(ls))

\* The size of a sequence of lines, as MaxResponse counts it.
RECURSIVE Weight(_)
Weight(ls) ==
    IF ls = <<>> THEN 0
    ELSE (IF Head(ls).kind = "text" THEN Len(Head(ls).text) ELSE 1) + Weight(Tail(ls))

\* next((i for s in chat_sessions if s["id"] == cid), None): the position of
\* the first session with that id, 0 when there is none.
FindSession(sessions, cid) ==
    IF \E i \in 1..Len(sessions) : sessions[i].id = cid
    THEN CHOOSE i \in 1..Len(sessions) :
            /\ sessions[i].id = cid
            /\ \A j \in 1..(i - 1) : sessions[j].id # cid
    ELSE 0

\* ------------------------------------------------------------------ JSON
\* chat_history.json: whether it exists, the list the last json.dump into it
\* was given (dumped), and how much of the text of that dump reached the file
\* (part: "whole", "half" or "none").  Its characters are Content(file).
NoFile == [exists |-> FALSE, dumped |-> <<>>, part |-> "none"]

FileOf(sessions, part) == [exists |-> TRUE, dumped |-> sessions, part |-> part]

\* Characters outside ASCII (texts are sequences of code points, each named
\* by a string): one of the basic plane, one beyond it, and the two surrogate
\* code points of its UTF-16 form, which a Python str can hold on their own
\* (json.loads of "\ud83d" yields one).
EAcute == "U+00E9"
Emoji == "U+1F600"
HighSurrogate == "U+D83D"
LowSurrogate == "U+DE00"

DigitChars == << "0", "1", "2", "3", "4", "5", "6", "7", "8", "9" >>

RECURSIVE Decimal(_)
\* str(n) for n >= 0, as json.dump and the f-string of the name write it
Decimal(n) ==
    IF n < 10 THEN << DigitChars[n + 1] >>
    ELSE Decimal(n \div 10) \o << DigitChars[(n % 10) + 1] >>

\* json.encoder, ensure_ascii=True: the escape of one character of a string
RawChar(c) == << c >>

EscapeChar(c) ==
    CASE c = "\"" -> << "\\", "\"" >>
      [] c = "\\" -> << "\\", "\\" >>
      [] c = "\n" -> << "\\", "n" >>
      [] c = EAcute -> << "\\", "u", "0", "0", "e", "9" >>
      [] c = HighSurrogate -> << "\\", "u", "d", "8", "3", "d" >>
      [] c = LowSurrogate -> << "\\", "u", "d", "e", "0", "0" >>
      [] c = Emoji -> << "\\", "u", "d", "8", "3", "d", "\\", "u", "d", "e", "0", "0" >>
      [] OTHER -> << c >>

\* json.dump of a str
DumpStr(t) ==
    << "\"" >> \o Concat([i \in 1..Len(t) |-> EscapeChar(t[i])]) \o << "\"" >>

RECURSIVE JoinItems(_)
\* ", ".join(items)
JoinItems(items) ==
    IF items = <<>> THEN <<>>
    ELSE IF Len(items) = 1 THEN items[1]
    ELSE items[1] \o << ",", " " >> \o JoinItems(Tail(items))

\* json.dump of a list whose items are already dumped
DumpList(items) == << "[" >> \o JoinItems(items) \o << "]" >>

\* "key": value
DumpPair(key, dumped) == DumpStr(key) \o << ":", " " >> \o dumped

\* json.dump of a dict, given its pairs in insertion order
DumpDict(pairs) == << "{" >> \o JoinItems(pairs) \o << "}" >>

\* The keys of the records, as texts.
KeyId == << "i", "d" >>
KeyName == << "n", "a", "m", "e" >>
KeyMessages == << "m", "e", "s", "s", "a", "g", "e", "s" >>
KeyCreatedAt == << "c", "r", "e", "a", "t", "e", "d", "_", "a", "t" >>
KeySender == << "s", "e", "n", "d", "e", "r" >>
KeyText == << "t", "e", "x", "t" >>
KeyTimestamp == << "t", "i", "m", "e", "s", "t", "a", "m", "p" >>

\* The values of "sender", as texts.
SenderText(sender) ==
    IF sender = "user" THEN << "u", "s", "e", "r" >> ELSE << "a", "i" >>

DumpMessage(m) ==
    DumpDict(<< DumpPair(KeySender, DumpStr(SenderText(m.sender))),
                DumpPair(KeyText, DumpStr(m.text)),
                DumpPair(KeyTimestamp, DumpStr(m.timestamp)) >>)

DumpSession(x) ==
    DumpDict(<< DumpPair(KeyId, Decimal(x.id)),
                DumpPair(KeyName, DumpStr(x.name)),
                DumpPair(KeyMessages,
                         DumpList([i \in 1..Len(x.messages) |-> DumpMessage(x.messages[i])])),
                DumpPair(KeyCreatedAt, DumpStr(x.created_at)) >>)

\* json.dump(self.chat_sessions.value, f): the characters written
Dumps(sessions) ==
    DumpList([i \in 1..Len(sessions) |-> DumpSession(sessions[i])])

\* The characters in the file.
Content(f) ==
    CASE f.part = "whole" -> Dumps(f.dumped)
      [] f.part = "half" -> SubSeq(Dumps(f.dumped), 1, Len(Dumps(f.dumped)) \div 2)
      [] OTHER -> <<>>

\* ---- json.load: a parse result is [ok, val, pos]: whether a value was read,
\* the value, and the position after it.  A value is [t, v]: t its JSON type,
\* v a text (str), a number (int), a sequence of values (list) or a sequence
\* of << key, value >> pairs (dict).
Fail == [ok |-> FALSE, val |-> <<>>, pos |-> 0]

Ok(val, pos) == [ok |-> TRUE, val |-> val, pos |-> pos]

IsDigit(c) == \E d \in 1..10 : DigitChars[d] = c

DigitValue(c) == (CHOOSE d \in 1..10 : DigitChars[d] = c) - 1

RECURSIVE SkipWs(_, _)
\* the position of the first character at or after i that is not whitespace
SkipWs(cs, i) ==
    IF i <= Len(cs) /\ cs[i] \in {" ", "\n"} THEN SkipWs(cs, i + 1) ELSE i

RECURSIVE ScanStr(_, _, _)
\* the characters of a string up to its closing quote, escapes decoded (a
\* high surrogate escape followed by a low surrogate escape is one code
\* point); a raw control character or an escape outside the model's alphabet
\* is an error
ScanStr(cs, i, acc) ==
    IF i > Len(cs) THEN Fail
    ELSE IF cs[i] = "\"" THEN Ok(acc, i + 1)
    ELSE IF cs[i] = "\n" THEN Fail
    ELSE IF cs[i] # "\\" THEN ScanStr(cs, i + 1, Append(acc, cs[i]))
    ELSE IF i + 1 > Len(cs) THEN Fail
    ELSE CASE cs[i + 1] = "\"" -> ScanStr(cs, i + 2, Append(acc, "\""))
           [] cs[i + 1] = "\\" -> ScanStr(cs, i + 2, Append(acc, "\\"))
           [] cs[i + 1] = "n" -> ScanStr(cs, i + 2, Append(acc, "\n"))
           [] cs[i + 1] = "u" ->
                IF i + 5 > Len(cs) THEN Fail
                ELSE LET hex == SubSeq(cs, i + 2, i + 5)
                     IN  CASE hex = << "0", "0", "e", "9" >> ->
                                ScanStr(cs, i + 6, Append(acc, EAcute))
                           [] hex = << "d", "e", "0", "0" >> ->
                                ScanStr(cs, i + 6, Append(acc, LowSurrogate))
                           [] hex = << "d", "8", "3", "d" >> ->
                                IF i + 11 <= Len(cs)
                                   /\ SubSeq(cs, i + 6, i + 11)
                                         = << "\\", "u", "d", "e", "0", "0" >>
                                THEN ScanStr(cs, i + 12, Append(acc, Emoji))
                                ELSE ScanStr(cs, i + 6, Append(acc, HighSurrogate))
                           [] OTHER -> Fail
           [] OTHER -> Fail

RECURSIVE ScanInt(_, _, _)
\* the digits of a number
ScanInt(cs, i, n) ==
    IF i <= Len(cs) /\ IsDigit(cs[i]) THEN ScanInt(cs, i + 1, n * 10 + DigitValue(cs[i]))
    ELSE Ok(n, i)

RECURSIVE ParseValue(_, _)
RECURSIVE ParseItems(_, _, _)
RECURSIVE ParseMembers(_, _, _)

\* the items of a list, after "[" or after a ","
ParseItems(cs, i, acc) ==
    LET j == SkipWs(cs, i)
    IN  IF j > Len(cs) THEN Fail
        ELSE IF cs[j] = "]" /\ acc = <<>> THEN Ok([t |-> "list", v |-> acc], j + 1)
        ELSE LET r == ParseValue(cs, j)
                 k == SkipWs(cs, r.pos)
             IN  IF ~r.ok \/ k > Len(cs) THEN Fail
                 ELSE IF cs[k] = "," THEN ParseItems(cs, k + 1, Append(acc, r.val))
                 ELSE IF cs[k] = "]"
                      THEN Ok([t |-> "list", v |-> Append(acc, r.val)], k + 1)
                 ELSE Fail

\* the members of a dict, after "{" or after a ","
ParseMembers(cs, i, acc) ==
    LET j == SkipWs(cs, i)
    IN  IF j > Len(cs) THEN Fail
        ELSE IF cs[j] = "}" /\ acc = <<>> THEN Ok([t |-> "dict", v |-> acc], j + 1)
        ELSE IF cs[j] # "\"" THEN Fail
        ELSE LET key == ScanStr(cs, j + 1, <<>>)
                 c == SkipWs(cs, key.pos)
             IN  IF ~key.ok \/ c > Len(cs) THEN Fail
                 ELSE IF cs[c] # ":" THEN Fail
                 ELSE LET r == ParseValue(cs, c + 1)
                          k == SkipWs(cs, r.pos)
                      IN  IF ~r.ok \/ k > Len(cs) THEN Fail
                          ELSE IF cs[k] = ","
                               THEN ParseMembers(cs, k + 1, Append(acc, << key.val, r.val >>))
                          ELSE IF cs[k] = "}"
                               THEN Ok([t |-> "dict",
                                        v |-> Append(acc, << key.val, r.val >>)], k + 1)
                          ELSE Fail

ParseValue(cs, i) ==
    LET j == SkipWs(cs, i)
    IN  IF j > Len(cs) THEN Fail
        ELSE IF cs[j] = "\""
             THEN LET r == ScanStr(cs, j + 1, <<>>)
                  IN  IF r.ok THEN Ok([t |-> "str", v |-> r.val], r.pos) ELSE Fail
        ELSE IF IsDigit(cs[j])
             THEN LET r == ScanInt(cs, j, 0)
                  IN  Ok([t |-> "int", v |-> r.val], r.pos)
        ELSE IF cs[j] = "[" THEN ParseItems(cs, j + 1, <<>>)
        ELSE IF cs[j] = "{" THEN ParseMembers(cs, j + 1, <<>>)
        ELSE Fail

\* json.load(f): one value, then nothing but whitespace (else JSONDecodeError)
Loads(cs) ==
    LET r == ParseValue(cs, 1)
    IN  IF r.ok /\ SkipWs(cs, r.pos) = Len(cs) + 1 THEN r ELSE Fail

\* d[key] of a decoded dict: the value of the last member with that key
Lookup(d, key) ==
    LET n == CHOOSE i \in 1..Len(d.v) :
                /\ d.v[i][1] = key
                /\ \A j \in (i + 1)..Len(d.v) : d.v[j][1] # key
    IN  d.v[n][2].v

\* The decoded values as the records of the model.
SenderOfText(t) == IF t = << "u", "s", "e", "r" >> THEN "user" ELSE "ai"

MessageOfJson(d) ==
    [sender |-> SenderOfText(Lookup(d, KeySender)), text |-> Lookup(d, KeyText),
     timestamp |-> Lookup(d, KeyTimestamp)]

SessionOfJson(d) ==
    LET ms == Lookup(d, KeyMessages)
    IN  [id |-> Lookup(d, KeyId), name |-> Lookup(d, KeyName),
         messages |-> [i \in 1..Len(ms) |-> MessageOfJson(ms[i])],
         created_at |-> Lookup(d, KeyCreatedAt)]

SessionsOfJson(val) == [i \in 1..Len(val.v) |-> SessionOfJson(val.v[i])]

\* ------------------------------------------------------------------ controls
\* A control of the transcript.  type is the flet class ("Row", "Container");
\* role says who built it; ai says whether "AI:" occurs in content.value;
\* owner is the stream that created it (0: none); obj is the identity of an AI
\* message container (0: never referred to again); writer is the stream whose
\* text it shows now (a history field the code does not have).
Row(role, t) ==
    [type |-> "Row", role |-> role, text |-> t, ai |-> FALSE, owner |-> 0, obj |-> 0,
     writer |-> 0]

\* display_message(message)
MessageRow(message) == Row(message.sender, message.text)

\* show_error(message): a Container whose Text is the message
ErrorContainer(t) ==
    [type |-> "Container", role |-> "error", text |-> t, ai |-> FALSE,
     owner |-> 0, obj |-> 0, writer |-> 0]

\* main, handle_send_message: Row(Text("... thinking..."), ProgressRing)
Spinner(s) ==
    [type |-> "Row", role |-> "spinner", text |-> <<>>, ai |-> FALSE,
     owner |-> s, obj |-> 0, writer |-> 0]

\* Container(content=Text(f"AI: {text}"))
AIContainer(s, t, o) ==
    [type |-> "Container", role |-> "aimsg", text |-> t, ai |-> TRUE,
     owner |-> s, obj |-> o, writer |-> s]

\* [display_message(m) for m in session["messages"]]
MessageRows(messages) == [i \in 1..Len(messages) |-> MessageRow(messages[i])]

\* ------------------------------------------------------------------ streams
\* Stream s is in the Streaming state: its request is open and the reader has
\* neither exhausted the transport nor failed.
Streaming(s) == pc[s] \in {"post", "iter"}

\* A coroutine of stream s is still queued on the UI loop.
Queued(s) == \E i \in 1..Len(tasks) : tasks[i].s = s

\* Stream s has run to its end: reader returned, every task of it has run.
Settled(s) == pc[s] = "done" /\ ~Queued(s)

\* A task queued by run_task: kind names the coroutine, s its stream, fc the
\* default argument fc of update_char / first_chunk of update, t the text an
\* update carries or the message an error handler shows.
Task(kind, s, fc, t) == [kind |-> kind, s |-> s, fc |-> fc, t |-> t]

\* ------------------------------------------------------------------ Init
\* __init__ with no chat_history.json: no sessions, no active session, an
\* empty transcript; load_models has filled the dropdown (or failed to).
InMemoryInit ==
    /\ app \in Apps
    /\ current_model \in Models
    /\ chat_sessions = <<>>
    /\ current_chat_id = None
    /\ chat_history = <<>>
    /\ ai_thinking_container = 0
    /\ ai_message_container = 0
    /\ nobj = 0
    /\ tasks = <<>>
    /\ nstreams = 0
    /\ nops = 0
    /\ pc = [s \in Streams |-> "idle"]
    /\ text = [s \in Streams |-> <<>>]
    /\ chars = [s \in Streams |-> <<>>]
    /\ first_chunk = [s \in Streams |-> TRUE]
    /\ e_bound = [s \in Streams |-> FALSE]
    /\ recv = [s \in Streams |-> <<>>]
    /\ sess_of = [s \in Streams |-> None]
    /\ committed = [s \in Streams |-> <<>>]
    /\ shown = [s \in Streams |-> <<>>]
    /\ stable = [s \in Streams |-> FALSE]
    /\ torn = [s \in Streams |-> FALSE]
    /\ deleted = [s \in Streams |-> FALSE]
    /\ cleared = [s \in Streams |-> FALSE]
    /\ late_ui = [s \in Streams |-> FALSE]
    /\ errors_shown = [s \in Streams |-> 0]
    /\ result = [s \in Streams |-> "none"]
    /\ last_append = "none"

\* Spec starts with the application running, started in a directory without
\* chat_history.json on a disk that works.
Init ==
    /\ InMemoryInit
    /\ file = NoFile
    /\ disk = "ok"
    /\ running = "on"

\* ------------------------------------------------------------------ session store
\* datetime.datetime.now().isoformat(): the clock is not modelled, every stamp
\* taken while the application runs is this text (no code reads the stamps).
Now == << "t", "0" >>

\* add_message_to_session(sender, text): append to the first session whose id
\* is current_chat_id; nothing when there is none.
AddMessageInFront(sessions, cid, sender, t) ==
    LET i == FindSession(sessions, cid)
    IN  IF i = 0 THEN sessions
        ELSE [sessions EXCEPT ![i].messages =
                  << [sender |-> sender, text |-> t, timestamp |-> Now] >> \o @]

AddMessage(sessions, cid, sender, t) ==
    LET i == FindSession(sessions, cid)
    IN  IF i = 0 THEN sessions
        ELSE [sessions EXCEPT ![i].messages =
                  Append(@, [sender |-> sender, text |-> t, timestamp |-> Now])]

\* How that call ends: the code has no other outcome than these two, and
\* returns None in both.
AppendOutcome(sessions, cid) ==
    IF FindSession(sessions, cid) = 0 THEN "ignored" ELSE "appended"

\* The session handle_new_chat builds: id and name from the current count.
NewChatCountAsId(sessions) ==
    [id |-> Len(sessions),
     name |-> << "C", "h", "a", "t", " " >> \o Decimal(Len(sessions)),
     messages |-> <<>>,
     created_at |-> Now]

NewChat(sessions) ==
    [id |-> Len(sessions) + 1,
     name |-> << "C", "h", "a", "t", " " >> \o Decimal(Len(sessions) + 1),
     messages |-> <<>>,
     created_at |-> Now]

\* delete_chat: [s for s in chat_sessions if s["id"] != chat_id]
WithoutId(sessions, cid) == SelectSeq(sessions, LAMBDA x : x.id # cid)

\* ------------------------------------------------------------------ persistence
\* What the file system does with chat_history.json:
\*   "ok"       : open and write succeed
\*   "readonly" : open(..., "w") raises; reading works
\*   "full"     : open(..., "w") truncates the file, the write raises
\*   "noaccess" : every open raises
DiskStates == {"ok", "readonly", "full", "noaccess"}

\* save_chat_history(): the files it may leave behind.  When the write
\* raises, some part of the text (none, or the first half) has reached the
\* file; when open raises, the file is as before.
Saved(f, sessions) ==
    CASE disk = "ok" -> { FileOf(sessions, "whole") }
      [] disk = "full" -> { FileOf(sessions, "none"), FileOf(sessions, "half") }
      [] OTHER -> { f }

\* load_chat_history(): "crash" when open or json.load raises, else the
\* sessions it leaves in self.chat_sessions.value (given the empty list
\* __init__ has just put there).
LoadOutcome(f) ==
    IF ~f.exists THEN [how |-> "ok", sessions |-> <<>>]
    ELSE IF disk = "noaccess" THEN [how |-> "crash", sessions |-> <<>>]
    ELSE LET r == Loads(Content(f))
         IN  IF r.ok /\ r.val.t = "list"
             THEN [how |-> "ok", sessions |-> SessionsOfJson(r.val)]
             ELSE [how |-> "crash", sessions |-> <<>>]

\* ------------------------------------------------------------------ sidebar
\* The ids the sidebar offers for load and delete (update_chat_list).
ListedIds == { chat_sessions[i].id : i \in 1..Len(chat_sessions) }

\* ------------------------------------------------------------------ user operations
\* A stream counts as disturbed by a user operation until it has settled.
Unsettled == { s \in Streams : pc[s] # "idle" /\ ~Settled(s) }

handle_new_chat ==
    /\ nops < MaxUserOps
    /\ nops' = nops + 1
    /\ Len(chat_sessions) < MaxSessions
    /\ chat_sessions' = Append(chat_sessions, NewChat(chat_sessions))
    /\ current_chat_id' = NewChat(chat_sessions).id
    /\ chat_history' = <<>>
    /\ stable' = [s \in Streams |-> IF s \in Unsettled THEN FALSE ELSE stable[s]]
    /\ UNCHANGED << app, current_model, ai_thinking_container, ai_message_container,
                    nobj, tasks, nstreams, pc, text, chars, first_chunk, e_bound >>
    /\ UNCHANGED << recv, sess_of, committed, shown, torn, deleted, cleared, late_ui,
                    errors_shown, result >>
    /\ UNCHANGED << disk, running, last_append >>
    /\ file' \in Saved(file, chat_sessions')

load_chat(chat_id) ==
    /\ nops < MaxUserOps
    /\ chat_id \in ListedIds
    /\ current_chat_id' = chat_id
    /\ LET i == FindSession(chat_sessions, chat_id)
       IN  chat_history' = IF i # 0 THEN MessageRows(chat_sessions[i].messages)
                           ELSE chat_history
    /\ stable' = [s \in Streams |->
                    IF s \in Unsettled /\ chat_id # current_chat_id THEN FALSE
                    ELSE stable[s]]
    /\ nops' = IF current_chat_id' = current_chat_id /\ chat_history' = chat_history
               THEN nops ELSE nops + 1
    /\ UNCHANGED << app, current_model, chat_sessions, ai_thinking_container,
                    ai_message_container, nobj, tasks, nstreams, pc, text, chars,
                    first_chunk, e_bound >>
    /\ UNCHANGED << recv, sess_of, committed, shown, torn, deleted, cleared, late_ui,
                    errors_shown, result >>
    /\ UNCHANGED << file, disk, running, last_append >>

\* delete_chat: current_chat_id after it
PointerKeptAfterDelete(cur, chat_id) == cur

PointerAfterDelete(cur, chat_id) == IF cur = chat_id THEN None ELSE cur

delete_chat(chat_id) ==
    /\ nops < MaxUserOps
    /\ nops' = nops + 1
    /\ chat_id \in ListedIds
    /\ chat_sessions' = WithoutId(chat_sessions, chat_id)
    /\ chat_history' =
          Append(IF current_chat_id = chat_id THEN <<>> ELSE chat_history,
                 ErrorContainer(<<"Chat deleted successfully!">>))
    /\ current_chat_id' = PointerAfterDelete(current_chat_id, chat_id)
    /\ stable' = [s \in Streams |->
                    IF s \in Unsettled /\ chat_id = current_chat_id THEN FALSE
                    ELSE stable[s]]
    /\ torn' = [s \in Streams |->
                    IF Streaming(s) /\ chat_id = current_chat_id THEN TRUE
                    ELSE torn[s]]
    /\ deleted' = [s \in Streams |->
                    IF Streaming(s) /\ chat_id = current_chat_id THEN TRUE
                    ELSE deleted[s]]
    /\ UNCHANGED << app, current_model, ai_thinking_container, ai_message_container,
                    nobj, tasks, nstreams, pc, text, chars, first_chunk, e_bound >>
    /\ UNCHANGED << recv, sess_of, committed, shown, cleared, late_ui, errors_shown,
                    result >>
    /\ UNCHANGED << disk, running, last_append >>
    /\ file' \in Saved(file, chat_sessions')

handle_clear_chat ==
    /\ nops < MaxUserOps
    /\ chat_history' = <<>>
    /\ torn' = [s \in Streams |-> IF Streaming(s) THEN TRUE ELSE torn[s]]
    /\ cleared' = [s \in Streams |-> IF Streaming(s) THEN TRUE ELSE cleared[s]]
    /\ nops' = IF chat_history = <<>> /\ torn' = torn /\ cleared' = cleared
               THEN nops ELSE nops + 1
    /\ UNCHANGED << app, current_model, chat_sessions, current_chat_id,
                    ai_thinking_container, ai_message_container, nobj, tasks,
                    nstreams, pc, text, chars, first_chunk, e_bound >>
    /\ UNCHANGED << recv, sess_of, committed, shown, stable, deleted, late_ui,
                    errors_shown, result >>
    /\ UNCHANGED << file, disk, running, last_append >>

\* refresh_chat_display(), called when the settings dialog is saved: with an
\* active chat the transcript is emptied and the messages of the session are
\* displayed again (under the new names, which are not modelled).
refresh_chat_display ==
    /\ nops < MaxUserOps
    /\ current_chat_id # None
    /\ LET i == FindSession(chat_sessions, current_chat_id)
       IN  chat_history' = IF i # 0 THEN MessageRows(chat_sessions[i].messages)
                           ELSE <<>>
    /\ nops' = IF chat_history' = chat_history THEN nops ELSE nops + 1
    /\ UNCHANGED << app, current_model, chat_sessions, current_chat_id,
                    ai_thinking_container, ai_message_container, nobj, tasks,
                    nstreams, pc, text, chars, first_chunk, e_bound >>
    /\ UNCHANGED << recv, sess_of, committed, shown, stable, torn, deleted, cleared,
                    late_ui, errors_shown, result >>
    /\ UNCHANGED << file, disk, running, last_append >>

\* validate_send_conditions: "no_model" and "blank" are its two ways to return
\* False (the second check, value among the options, cannot fail here: the
\* value load_models sets is one of the options it sets).
Validate(input) ==
    IF current_model = "" THEN "no_model"
    ELSE IF Strip(input) = <<>> THEN "blank"
    ELSE "ok"

\* The controls handle_send_message puts after the user's message: the main
\* copy a spinner row it keeps in self.ai_thinking_container, the other copy
\* display_message of the thinking text as an "ai" message.
ThinkingControl(s) ==
    IF app = "main" THEN Spinner(s)
    ELSE MessageRow([sender |-> "ai", text |-> <<"thinking">>])

handle_send_message(input) ==
    /\ \/ /\ Validate(input) = "no_model"
          /\ nops < MaxUserOps
          /\ nops' = nops + 1
          /\ chat_history' =
                Append(chat_history, ErrorContainer(<<"Please select a model first!">>))
          /\ UNCHANGED << app, current_model, chat_sessions, current_chat_id,
                          ai_thinking_container, ai_message_container, nobj, tasks,
                          nstreams, pc, text, chars, first_chunk, e_bound >>
          /\ UNCHANGED hist_vars
       \/ /\ Validate(input) = "blank"
          /\ UNCHANGED vars
       \/ /\ Validate(input) = "ok"
          /\ nstreams < MaxStreams
          /\ LET s == nstreams + 1
                 prompt == Strip(input)
             IN  /\ chat_sessions' =
                        AddMessage(chat_sessions, current_chat_id, "user", prompt)
                 /\ chat_history' =
                        chat_history
                        \o << MessageRow([sender |-> "user", text |-> prompt]),
                              ThinkingControl(s) >>
                 /\ ai_thinking_container' =
                        IF app = "main" THEN s ELSE ai_thinking_container
                 /\ last_append' = AppendOutcome(chat_sessions, current_chat_id)
                 /\ nstreams' = s
                 /\ UNCHANGED nops
                 /\ pc' = [pc EXCEPT ![s] = "post"]
                 /\ sess_of' = [sess_of EXCEPT ![s] = current_chat_id]
                 /\ stable' = [stable EXCEPT
                                 ![s] = FindSession(chat_sessions, current_chat_id) # 0]
          /\ UNCHANGED << app, current_model, current_chat_id, ai_message_container,
                          nobj, tasks, text, chars, first_chunk, e_bound >>
          /\ UNCHANGED << recv, committed, shown, torn, deleted, cleared, late_ui,
                          errors_shown, result >>
    /\ UNCHANGED << file, disk, running >>

\* ------------------------------------------------------------------ UI loop queue
\* page.run_task(coroutine): asyncio.run_coroutine_threadsafe puts it at the
\* end of the loop's ready queue.
Enqueue(q, task) == Append(q, task)

\* text += chunk["response"]  /  full_response.append(char)
PrependAccumulate(acc, more) == more \o acc

Accumulate(acc, more) == acc \o more

\* ------------------------------------------------------------------ reader thread
\* requests.post(...): a 200 response, another status, or an exception
\* (connection refused, timeout).
PostOutcomes == {"ok", "status", "exception"}

\* process(), from its start to the first line of the loop over iter_lines.
ReaderPost(s, outcome) ==
    /\ pc[s] = "post"
    /\ outcome \in PostOutcomes
    /\ \/ /\ outcome = "ok"
          /\ pc' = [pc EXCEPT ![s] = "iter"]
          /\ UNCHANGED << tasks, e_bound, result >>
       \/ /\ outcome = "status"
          /\ tasks' = Enqueue(tasks, Task("show_api_error", s, FALSE, <<"API Error">>))
          /\ pc' = [pc EXCEPT ![s] = "done"]
          /\ result' = [result EXCEPT ![s] = "status"]
          /\ UNCHANGED e_bound
       \/ /\ outcome = "exception"
          /\ tasks' = Enqueue(tasks,
                Task(IF app = "main" THEN "handle_general_error"
                     ELSE "handle_request_error", s, FALSE, <<"Error">>))
          /\ pc' = [pc EXCEPT ![s] = "unwind"]
          /\ e_bound' = [e_bound EXCEPT ![s] = TRUE]
          /\ result' = [result EXCEPT ![s] = "exception"]
    /\ UNCHANGED << app, current_model, chat_sessions, current_chat_id, chat_history,
                    ai_thinking_container, ai_message_container, nobj, nstreams, nops,
                    text, chars, first_chunk >>
    /\ UNCHANGED << recv, sess_of, committed, shown, stable, torn, deleted, cleared, late_ui,
                    errors_shown >>
    /\ UNCHANGED << file, disk, running, last_append >>

\* main: one turn of "for char in chunk['response']": append the character,
\* queue update_char with the first_chunk flag as it is now.
ReaderChar(s) ==
    /\ app = "main"
    /\ pc[s] = "iter"
    /\ chars[s] # <<>>
    /\ text' = [text EXCEPT ![s] = Accumulate(@, <<Head(chars[s])>>)]
    /\ chars' = [chars EXCEPT ![s] = Tail(@)]
    /\ tasks' = Enqueue(tasks, Task("update_char", s, first_chunk[s], <<>>))
    /\ UNCHANGED << app, current_model, chat_sessions, current_chat_id, chat_history,
                    ai_thinking_container, ai_message_container, nobj, nstreams, nops,
                    pc, first_chunk, e_bound >>
    /\ UNCHANGED hist_vars
    /\ UNCHANGED << file, disk, running, last_append >>

\* The reader leaves its loop when a line raises: the handler coroutine is
\* queued inside the except clause, whose variable e is unbound when the
\* clause is left (ReaderUnwind).
RaiseAndContinue(s, handler, how) ==
    /\ tasks' = Enqueue(tasks, Task(handler, s, FALSE, <<"Error">>))
    /\ result' = [result EXCEPT ![s] = how]
    /\ UNCHANGED << pc, e_bound >>

Raise(s, handler, how) ==
    /\ tasks' = Enqueue(tasks, Task(handler, s, FALSE, <<"Error">>))
    /\ pc' = [pc EXCEPT ![s] = "unwind"]
    /\ e_bound' = [e_bound EXCEPT ![s] = TRUE]
    /\ result' = [result EXCEPT ![s] = how]

\* A line that is a text fragment: {"response": t}.
OnTextLine(s, line) ==
    /\ IF app = "main"
       THEN /\ chars' = [chars EXCEPT ![s] = line.text]
            /\ UNCHANGED << text, tasks >>
       ELSE /\ text' = [text EXCEPT ![s] = Accumulate(@, line.text)]
            /\ tasks' = Enqueue(tasks, Task("update_response", s, FALSE, <<>>))
            /\ UNCHANGED chars
    /\ UNCHANGED << pc, e_bound, result >>

\* A line that is an error fragment: the reader queues show_error and returns.
ErrorLineFallsThrough(s, line) ==
    /\ tasks' = Enqueue(tasks, Task("show_error", s, FALSE, line.text))
    /\ UNCHANGED << pc, e_bound, result, text, chars >>

OnErrorLine(s, line) ==
    /\ tasks' = Enqueue(tasks, Task("show_error", s, FALSE, line.text))
    /\ pc' = [pc EXCEPT ![s] = "done"]
    /\ result' = [result EXCEPT ![s] = "error"]
    /\ UNCHANGED << e_bound, text, chars >>

\* A line json.loads rejects.  main: the inner "except Exception" queues
\* handle_error and returns.  copy: "except json.JSONDecodeError: continue".
OnBadLine(s, line) ==
    /\ IF app = "main"
       THEN Raise(s, "handle_error", "bad_line")
       ELSE UNCHANGED << tasks, pc, e_bound, result >>
    /\ UNCHANGED << text, chars >>

\* A line line.decode('utf-8') rejects: UnicodeDecodeError is no
\* JSONDecodeError, so both copies take "except Exception".
OnUndecodableLine(s, line) ==
    /\ Raise(s, "handle_error", "bad_line")
    /\ UNCHANGED << text, chars >>

\* One turn of "for line in response.iter_lines()" that gets a line.
ReaderLine(s, line) ==
    /\ pc[s] = "iter"
    /\ chars[s] = <<>>
    /\ Weight(Append(recv[s], line)) <= MaxResponse
    /\ line \in Lines
    /\ recv' = [recv EXCEPT ![s] = Append(@, line)]
    /\ CASE line.kind = "text" -> OnTextLine(s, line)
         [] line.kind = "error" -> OnErrorLine(s, line)
         [] line.kind = "bad" -> OnBadLine(s, line)
         [] line.kind = "undecodable" -> OnUndecodableLine(s, line)
    /\ UNCHANGED << app, current_model, chat_sessions, current_chat_id, chat_history,
                    ai_thinking_container, ai_message_container, nobj, nstreams, nops,
                    first_chunk >>
    /\ UNCHANGED << sess_of, committed, shown, stable, torn, deleted, cleared, late_ui,
                    errors_shown >>
    /\ UNCHANGED << file, disk, running, last_append >>

\* iter_lines itself raises (connection dropped, read timeout).  main: the
\* loop is inside the inner try.  copy: the loop is outside the inner try, the
\* outer "except RequestException" takes it.
ReaderTransportError(s) ==
    /\ pc[s] = "iter"
    /\ chars[s] = <<>>
    /\ Raise(s, IF app = "main" THEN "handle_error" ELSE "handle_request_error",
             "exception")
    /\ UNCHANGED << app, current_model, chat_sessions, current_chat_id, chat_history,
                    ai_thinking_container, ai_message_container, nobj, nstreams, nops,
                    text, chars, first_chunk >>
    /\ UNCHANGED << recv, sess_of, committed, shown, stable, torn, deleted, cleared, late_ui,
                    errors_shown >>
    /\ UNCHANGED << file, disk, running, last_append >>

\* History of a commit, read off the store before and after it: for the
\* session whose messages changed, its position and id, the message that is
\* now its last, how many messages it gained, and the position of the active
\* session at that moment.
Commits(old, new) ==
    LET grown == { i \in 1..Len(old) : new[i].messages # old[i].messages }
    IN  IF grown = {} THEN <<>>
        ELSE LET i == CHOOSE i \in grown : TRUE
                 m == new[i].messages
             IN  << [pos |-> i, id |-> new[i].id,
                     sender |-> m[Len(m)].sender, text |-> m[Len(m)].text,
                     gained |-> Len(m) - Len(old[i].messages),
                     active |-> FindSession(old, current_chat_id)] >>

\* The transport is exhausted.  main: run_task(finalize).  copy: the reader
\* itself calls add_message_to_session("ai", text), then display_message.
ReaderExhausted(s) ==
    /\ pc[s] = "iter"
    /\ chars[s] = <<>>
    /\ result' = [result EXCEPT ![s] = "exhausted"]
    /\ IF app = "main"
       THEN /\ tasks' = Enqueue(tasks, Task("finalize", s, FALSE, <<>>))
            /\ pc' = [pc EXCEPT ![s] = "done"]
            /\ UNCHANGED << chat_sessions, committed, last_append >>
       ELSE /\ chat_sessions' = AddMessage(chat_sessions, current_chat_id, "ai", text[s])
            /\ last_append' = AppendOutcome(chat_sessions, current_chat_id)
            /\ committed' =
                 [committed EXCEPT ![s] = @ \o Commits(chat_sessions, chat_sessions')]
            /\ pc' = [pc EXCEPT ![s] = "display"]
            /\ UNCHANGED tasks
    /\ UNCHANGED << app, current_model, current_chat_id, chat_history,
                    ai_thinking_container, ai_message_container, nobj, nstreams, nops,
                    text, chars, first_chunk, e_bound >>
    /\ UNCHANGED << recv, sess_of, shown, stable, torn, deleted, cleared, late_ui,
                    errors_shown >>
    /\ UNCHANGED << file, disk, running >>

\* copy: display_message({"sender": "ai", "text": text}), called by the reader.
ReaderDisplay(s) ==
    /\ pc[s] = "display"
    /\ chat_history' = Append(chat_history, MessageRow([sender |-> "ai", text |-> text[s]]))
    /\ shown' = [shown EXCEPT ![s] = Append(@, text[s])]
    /\ late_ui' = [late_ui EXCEPT ![s] = @ \/ torn[s]]
    /\ pc' = [pc EXCEPT ![s] = "done"]
    /\ UNCHANGED << app, current_model, chat_sessions, current_chat_id,
                    ai_thinking_container, ai_message_container, nobj, tasks,
                    nstreams, nops, text, chars, first_chunk, e_bound >>
    /\ UNCHANGED << recv, sess_of, committed, stable, torn, deleted, cleared, errors_shown,
                    result >>
    /\ UNCHANGED << file, disk, running, last_append >>

\* The reader leaves the except clause (Python unbinds e) and returns.
ReaderUnwind(s) ==
    /\ pc[s] = "unwind"
    /\ e_bound' = [e_bound EXCEPT ![s] = FALSE]
    /\ pc' = [pc EXCEPT ![s] = "done"]
    /\ UNCHANGED << app, current_model, chat_sessions, current_chat_id, chat_history,
                    ai_thinking_container, ai_message_container, nobj, tasks,
                    nstreams, nops, text, chars, first_chunk >>
    /\ UNCHANGED hist_vars
    /\ UNCHANGED << file, disk, running, last_append >>

\* ------------------------------------------------------------------ UI loop tasks
\* The coroutine at the head of the loop's queue is the one that runs next.
Ready(kind) == tasks # <<>> /\ Head(tasks).kind = kind

\* main, cleanup(): remove self.ai_thinking_container from the transcript if
\* the attribute exists and the control is in the transcript.
Cleanup(controls) ==
    IF ai_thinking_container = 0 THEN controls
    ELSE SelectSeq(controls,
            LAMBDA c : ~(c.role = "spinner" /\ c.owner = ai_thinking_container))

\* The transcript changed: history of what streams did after a teardown.
Touch(s, before, after) ==
    late_ui' = [late_ui EXCEPT ![s] = @ \/ (torn[s] /\ before # after)]

\* main, update_char: await update_ai_message(''.join(full_response), fc),
\* which queues update() with that text, then first_chunk[0] = False.
Task_update_char ==
    /\ Ready("update_char")
    /\ LET k == Head(tasks)
       IN  /\ app = "main"
           /\ tasks' = Enqueue(Tail(tasks), Task("update", k.s, k.fc, text[k.s]))
           /\ first_chunk' = [first_chunk EXCEPT ![k.s] = FALSE]
    /\ UNCHANGED << app, current_model, chat_sessions, current_chat_id, chat_history,
                    ai_thinking_container, ai_message_container, nobj, nstreams, nops,
                    pc, text, chars, e_bound >>
    /\ UNCHANGED hist_vars
    /\ UNCHANGED << file, disk, running, last_append >>

\* copy, update_response: await update_ai_message(text) reads the reader's
\* variable text when the coroutine runs, and queues update() with it.
Task_update_response ==
    /\ Ready("update_response")
    /\ LET k == Head(tasks)
       IN  /\ app = "copy"
           /\ tasks' = Enqueue(Tail(tasks), Task("update", k.s, FALSE, text[k.s]))
    /\ UNCHANGED << app, current_model, chat_sessions, current_chat_id, chat_history,
                    ai_thinking_container, ai_message_container, nobj, nstreams, nops,
                    pc, text, chars, first_chunk, e_bound >>
    /\ UNCHANGED hist_vars
    /\ UNCHANGED << file, disk, running, last_append >>

\* The position in the transcript of the control with identity o (0: absent).
PosOfObj(controls, o) ==
    IF \E i \in 1..Len(controls) : controls[i].obj = o /\ o # 0
    THEN CHOOSE i \in 1..Len(controls) : controls[i].obj = o
    ELSE 0

\* main, update_ai_message.update: with first_chunk a new container is made,
\* kept in self.ai_message_container and appended; without, the text of
\* self.ai_message_container is replaced (seen only if it is in the transcript).
UpdateMain(k) ==
    IF k.fc
    THEN /\ chat_history' = Append(chat_history, AIContainer(k.s, k.t, nobj + 1))
         /\ ai_message_container' = nobj + 1
         /\ nobj' = nobj + 1
         /\ shown' = [shown EXCEPT ![k.s] = Append(@, k.t)]
    ELSE LET i == PosOfObj(chat_history, ai_message_container)
         IN  /\ chat_history' =
                    IF i = 0 THEN chat_history
                    ELSE [chat_history EXCEPT ![i].text = k.t, ![i].writer = k.s]
             /\ shown' = [shown EXCEPT ![k.s] = IF i = 0 THEN @ ELSE Append(@, k.t)]
             /\ UNCHANGED << ai_message_container, nobj >>

\* copy, update_ai_message.update: only if the last control is a Container;
\* its text is replaced if it contains "AI:", else a new container is appended.
UpdateCopy(k) ==
    LET n == Len(chat_history)
    IN  IF n > 0 /\ chat_history[n].type = "Container"
        THEN /\ chat_history' =
                    IF chat_history[n].ai
                    THEN [chat_history EXCEPT ![n].text = k.t, ![n].writer = k.s]
                    ELSE Append(chat_history, AIContainer(k.s, k.t, 0))
             /\ shown' = [shown EXCEPT ![k.s] = Append(@, k.t)]
             /\ UNCHANGED << ai_message_container, nobj >>
        ELSE UNCHANGED << chat_history, shown, ai_message_container, nobj >>

Task_update ==
    /\ Ready("update")
    /\ LET k == Head(tasks)
       IN  /\ IF app = "main" THEN UpdateMain(k) ELSE UpdateCopy(k)
           /\ Touch(k.s, chat_history, chat_history')
    /\ tasks' = Tail(tasks)
    /\ UNCHANGED << app, current_model, chat_sessions, current_chat_id,
                    ai_thinking_container, nstreams, nops, pc, text, chars, first_chunk,
                    e_bound >>
    /\ UNCHANGED << recv, sess_of, committed, stable, torn, deleted, cleared, errors_shown,
                    result >>
    /\ UNCHANGED << file, disk, running, last_append >>

\* An error coroutine: main calls cleanup() first (cleanupOk: cleanup is bound),
\* then self.show_error(...) (shows: the message can be built).  A NameError
\* ends the coroutine where it is raised.
ErrorTask(k, cleanupOk, shows) ==
    LET cleaned == IF app = "main" /\ cleanupOk THEN Cleanup(chat_history)
                   ELSE chat_history
        does == (app = "main" => cleanupOk) /\ shows
    IN  /\ chat_history' = IF does THEN Append(cleaned, ErrorContainer(k.t)) ELSE cleaned
        /\ errors_shown' = [errors_shown EXCEPT ![k.s] = IF does THEN @ + 1 ELSE @]
        /\ Touch(k.s, chat_history, chat_history')
        /\ tasks' = Tail(tasks)
        /\ UNCHANGED << app, current_model, chat_sessions, current_chat_id,
                        ai_thinking_container, ai_message_container, nobj, nstreams, nops,
                        pc, text, chars, first_chunk, e_bound >>
        /\ UNCHANGED << recv, sess_of, committed, shown, stable, torn, deleted, cleared, result >>
        /\ UNCHANGED << file, disk, running, last_append >>

\* show_error (error fragment): f"AI Error: {chunk['error']}"
Task_show_error == Ready("show_error") /\ ErrorTask(Head(tasks), TRUE, TRUE)

\* show_api_error (status other than 200): the text is built from error_details
Task_show_api_error == Ready("show_api_error") /\ ErrorTask(Head(tasks), TRUE, TRUE)

\* handle_error (inner except): str(e) needs e, bound only while the reader is
\* still inside the except clause
Task_handle_error ==
    Ready("handle_error") /\ ErrorTask(Head(tasks), TRUE, e_bound[Head(tasks).s])

\* copy, handle_request_error (outer except RequestException): str(e) as above
Task_handle_request_error ==
    Ready("handle_request_error") /\ ErrorTask(Head(tasks), TRUE, e_bound[Head(tasks).s])

\* main, handle_general_error (outer except): it calls cleanup(), a local of
\* process() that is assigned only after requests.post returned
Task_handle_general_error ==
    Ready("handle_general_error") /\ ErrorTask(Head(tasks), FALSE, e_bound[Head(tasks).s])

\* main, finalize: cleanup(); add_message_to_session("ai", ''.join(full_response))
Task_finalize ==
    /\ Ready("finalize")
    /\ LET k == Head(tasks)
       IN  /\ chat_history' = Cleanup(chat_history)
           /\ chat_sessions' = AddMessage(chat_sessions, current_chat_id, "ai", text[k.s])
           /\ last_append' = AppendOutcome(chat_sessions, current_chat_id)
           /\ committed' =
                 [committed EXCEPT ![k.s] = @ \o Commits(chat_sessions, chat_sessions')]
           /\ Touch(k.s, chat_history, chat_history')
    /\ tasks' = Tail(tasks)
    /\ UNCHANGED << app, current_model, current_chat_id, ai_thinking_container,
                    ai_message_container, nobj, nstreams, nops, pc, text, chars,
                    first_chunk, e_bound >>
    /\ UNCHANGED << recv, sess_of, shown, stable, torn, deleted, cleared, errors_shown, result >>
    /\ UNCHANGED << file, disk, running >>

\* ------------------------------------------------------------------ start and close
\* ChatApp.__init__: empty store, no active session, load_chat_history(),
\* build_ui() with an empty transcript.  An exception of load_chat_history
\* leaves __init__ (and main): the application does not come up.
ChatApp_init ==
    /\ running = "off"
    /\ LET r == LoadOutcome(file)
       IN  /\ running' = IF r.how = "ok" THEN "on" ELSE "crashed"
           /\ chat_sessions' = r.sessions
    /\ current_chat_id' = None
    /\ chat_history' = <<>>
    /\ UNCHANGED << app, current_model, ai_thinking_container, ai_message_container,
                    nobj, tasks, nstreams, nops, pc, text, chars, first_chunk, e_bound >>
    /\ UNCHANGED << file, disk >>
    /\ UNCHANGED hist_vars

\* The user closes the window while no request is open: the process ends and
\* nothing of the store but the file remains.
Close ==
    /\ running = "on"
    /\ nstreams = 0
    /\ nops < MaxUserOps
    /\ nops' = nops + 1
    /\ running' = "off"
    /\ chat_sessions' = <<>>
    /\ current_chat_id' = None
    /\ chat_history' = <<>>
    /\ UNCHANGED << app, current_model, ai_thinking_container, ai_message_container,
                    nobj, tasks, nstreams, pc, text, chars, first_chunk, e_bound >>
    /\ UNCHANGED << file, disk >>
    /\ UNCHANGED hist_vars

\* ------------------------------------------------------------------ specifications
\* Spec: every user operation, every transport outcome, one send.
UserStep ==
    \/ handle_new_chat
    \/ \E chat_id \in 1..MaxSessions : load_chat(chat_id)
    \/ \E chat_id \in 1..MaxSessions : delete_chat(chat_id)
    \/ handle_clear_chat
    \/ refresh_chat_display
    \/ \E input \in PromptInputs : nstreams = 0 /\ handle_send_message(input)

ReaderStep ==
    \/ \E s \in Streams, outcome \in PostOutcomes : ReaderPost(s, outcome)
    \/ \E s \in Streams : ReaderChar(s)
    \/ \E s \in Streams, line \in Lines : ReaderLine(s, line)
    \/ \E s \in Streams : ReaderTransportError(s)
    \/ \E s \in Streams : ReaderExhausted(s)
    \/ \E s \in Streams : ReaderDisplay(s)
    \/ \E s \in Streams : ReaderUnwind(s)

UIStep ==
    \/ Task_update_char
    \/ Task_update_response
    \/ Task_update
    \/ Task_show_error
    \/ Task_show_api_error
    \/ Task_handle_error
    \/ Task_handle_request_error
    \/ Task_handle_general_error
    \/ Task_finalize

Next == UserStep \/ ReaderStep \/ UIStep

Spec == Init /\ [][Next]_vars

\* SpecFair: Spec with the scheduling the runtime gives: a reader thread that
\* can take a step takes one (the transport delivers a line, ends or raises;
\* time.sleep returns), and the UI loop runs the coroutine at the head of its
\* queue.  Nothing obliges the user to do anything.
SpecFair == Spec /\ WF_vars(ReaderStep) /\ WF_vars(UIStep)

\* SpecConcurrent: the user opens a chat and sends up to MaxStreams prompts
\* without waiting for the responses; the server answers every request with
\* status 200 and text fragments of one character only.
ConcurrentUserStep ==
    \/ nstreams = 0 /\ handle_new_chat
    \/ \E input \in PromptInputs : handle_send_message(input)

ConcurrentReaderStep ==
    \/ \E s \in Streams : ReaderPost(s, "ok")
    \/ \E s \in Streams : ReaderChar(s)
    \/ \E s \in Streams, line \in ShortTextLines : ReaderLine(s, line)
    \/ \E s \in Streams : ReaderExhausted(s)
    \/ \E s \in Streams : ReaderDisplay(s)

ConcurrentUIStep ==
    \/ Task_update_char
    \/ Task_update_response
    \/ Task_update
    \/ Task_finalize

NextConcurrent == ConcurrentUserStep \/ ConcurrentReaderStep \/ ConcurrentUIStep

SpecConcurrent == Init /\ [][NextConcurrent]_vars

\* SpecStore: the session store and its file, without sends.  The
\* application is started in a directory that holds no chat_history.json, one
\* an earlier run wrote, or one that is not the whole text of a save; it is
\* closed and started again.
TypedTexts ==
    { << "h", "i" >>, << "\"" >>, << "a", "\\", "n" >>, << EAcute >>, << "\n", "b" >> }

\* What full_response / text may hold: any text, also none, and code points
\* that came in separate fragments.
ResponseTexts ==
    TypedTexts \cup { <<>>, << Emoji >>, << HighSurrogate, LowSurrogate >> }

\* Message lists an earlier run may have left in a session: prompts as the
\* user typed them, responses as the server sent them.
StoredMessage(sender, t) == [sender |-> sender, text |-> t, timestamp |-> << "t", "1" >>]

StoredMessageLists ==
    { <<>> }
    \cup { << StoredMessage("user", t) >> : t \in TypedTexts }
    \cup { << StoredMessage("user", << "h", "i" >>), StoredMessage("ai", t) >> :
             t \in ResponseTexts }

\* The store after handle_new_chat on the store prior and the sends that put
\* the messages ms into the new session.
WithStoredSession(prior, ms) ==
    Append(prior, [NewChat(prior) EXCEPT !.messages = ms])

OneStoredSession == { WithStoredSession(<<>>, ms) : ms \in StoredMessageLists }

\* The stores of earlier runs that only created chats and sent prompts.
StoredSessionLists ==
    { <<>> }
    \cup OneStoredSession
    \cup { WithStoredSession(x, ms) :
             x \in OneStoredSession,
             ms \in { <<>>, << StoredMessage("user", << "\"" >>) >> } }

\* Files that are not the whole text of a save: empty, or cut off.
BrokenFiles ==
    { FileOf(<<>>, "none") } \cup { FileOf(x, "half") : x \in OneStoredSession }

StartFiles ==
    { NoFile } \cup { FileOf(x, "whole") : x \in StoredSessionLists } \cup BrokenFiles

InitStore ==
    /\ InMemoryInit
    /\ current_model = "llama3"
    /\ file \in StartFiles
    /\ disk \in DiskStates
    /\ running = "off"

StoreStep ==
    \/ ChatApp_init
    \/ Close
    \/ running = "on" /\ handle_new_chat
    \/ \E chat_id \in 1..MaxSessions : running = "on" /\ load_chat(chat_id)
    \/ \E chat_id \in 1..MaxSessions : running = "on" /\ delete_chat(chat_id)
    \/ running = "on" /\ handle_clear_chat

SpecStore == InitStore /\ [][StoreStep]_vars

\* ------------------------------------------------------------------ properties
AllText(ls) == \A i \in 1..Len(ls) : ls[i].kind = "text"

HasError(ls) == \E i \in 1..Len(ls) : ls[i].kind = "error"

\* The reader got every line it was sent and none made it stop.
Exhausted(s) == result[s] = "exhausted"

\* C1: a stream of text fragments only, whose active session stays the same
\* and in the store, appends nothing before the transport is exhausted and
\* exactly one ai message once it has run to its end: to the active session,
\* with the concatenation of the fragments' texts in arrival order.  Checked
\* for both copies (app).
C1_CommitIsConcatenation ==
    \A s \in Streams :
        (stable[s] /\ AllText(recv[s]) /\ result[s] \in {"none", "exhausted"}) =>
            /\ Len(committed[s]) <= 1
            /\ ~Exhausted(s) => committed[s] = <<>>
            /\ Settled(s) =>
                  /\ Len(committed[s]) = 1
                  /\ committed[s][1].text = Concat(TextsOf(recv[s]))
                  /\ committed[s][1].sender = "ai"
                  /\ committed[s][1].gained = 1
                  /\ committed[s][1].pos = committed[s][1].active
                  /\ committed[s][1].id = sess_of[s]

C1_Witness ==
    \E s \in Streams :
        /\ app = "main"
        /\ stable[s] /\ Settled(s) /\ Exhausted(s)
        /\ recv[s] = << [kind |-> "text", text |-> <<"b", "c">>],
                        [kind |-> "text", text |-> <<"a">>] >>
        /\ Len(committed[s]) = 1
        /\ committed[s][1].text = <<"b", "c", "a">>

\* C2: a stream that received an error fragment never appends a message to
\* any session, however many text fragments came before it.
C2_NoCommitAfterErrorFragment ==
    \A s \in Streams : HasError(recv[s]) => committed[s] = <<>>

C2_Witness ==
    \E s \in Streams :
        /\ Settled(s) /\ stable[s]
        /\ Len(recv[s]) = 2
        /\ recv[s][1].kind = "text" /\ recv[s][2].kind = "error"
        /\ text[s] # <<>>
        /\ errors_shown[s] = 1
        /\ committed[s] = <<>>

\* C3 (as claimed): no two streams of the same chat session are Streaming at
\* the same time.
C3_OneStreamPerSession ==
    \A s1, s2 \in Streams :
        (s1 # s2 /\ Streaming(s1) /\ Streaming(s2) /\ sess_of[s1] # None)
            => sess_of[s1] # sess_of[s2]

\* C4 (as claimed): with two sends in flight, a stream commits the
\* concatenation of its own fragments, and an AI message container of the
\* transcript only ever shows text of the stream that created it.
C4_NoCrossStreamText ==
    /\ \A s \in Streams :
          (Settled(s) /\ stable[s] /\ committed[s] # <<>>) =>
              committed[s][1].text = Concat(TextsOf(recv[s]))
    /\ \A i \in 1..Len(chat_history) :
          chat_history[i].role = "aimsg" =>
              chat_history[i].writer = chat_history[i].owner

\* C5 (as claimed): a stream whose active session was deleted while it was
\* Streaming appends no message to any session.
C5_NoCommitAfterDelete ==
    \A s \in Streams : deleted[s] => committed[s] = <<>>

\* C6 (as claimed): a stream during which Clear Chat was pressed commits no
\* assistant message.
C6_NoCommitAfterClear ==
    \A s \in Streams : cleared[s] => committed[s] = <<>>

\* C7 (as claimed): after the active session was deleted or the view cleared
\* while a stream was Streaming, no event of that stream changes the
\* transcript.
C7_NoTranscriptChangeAfterTeardown ==
    \A s \in Streams : ~late_ui[s]

\* C8 (as claimed): lines that are not valid JSON are skipped: a stream of
\* text fragments and such lines runs to exhaustion and commits the
\* concatenation of the text fragments.
TextOrMalformed(ls) == \A i \in 1..Len(ls) : ls[i].kind \in {"text", "bad"}

C8_MalformedLinesSkipped ==
    \A s \in Streams :
        (stable[s] /\ Settled(s) /\ TextOrMalformed(recv[s])
           /\ result[s] \in {"exhausted", "bad_line"}) =>
            /\ Exhausted(s)
            /\ Len(committed[s]) = 1
            /\ committed[s][1].text = Concat(TextsOf(recv[s]))

\* The accumulations after each of the fragments, in order.
Partials(ts) == [i \in 1..Len(ts) |-> Concat(SubSeq(ts, 1, i))]

\* C9 (as claimed, for the copy the claim cites): an undisturbed stream of
\* text fragments shows one Partial per fragment, the accumulation up to that
\* fragment, and then the final text.
C9_PartialPerFragmentThenFinal ==
    \A s \in Streams :
        (app = "copy" /\ stable[s] /\ ~torn[s] /\ Settled(s) /\ Exhausted(s)
           /\ AllText(recv[s]) /\ recv[s] # <<>> /\ nops <= 1) =>
            shown[s] = Partials(TextsOf(recv[s])) \o << Concat(TextsOf(recv[s])) >>

\* C10 (as claimed): the texts one stream writes into the transcript form a
\* chain: each is a prefix of the next, and of the text accumulated so far
\* (which only grows).
C10_ShownTextsArePrefixChain ==
    \A s \in Streams :
        /\ \A i \in 1..(Len(shown[s]) - 1) : IsPrefix(shown[s][i], shown[s][i + 1])
        /\ \A i \in 1..Len(shown[s]) : IsPrefix(shown[s][i], text[s])

\* C11 (as claimed): once a stream has received an error fragment its reader
\* takes no further line, one Failed entry with the server's message is shown,
\* and after that entry is shown no Partial of the stream is written into the
\* transcript.
C11_FailedEntryAfterAllPartials ==
    [][ \A s \in Streams :
          HasError(recv[s]) =>
              /\ recv'[s] = recv[s]
              /\ Settled(s) => errors_shown[s] = 1
              /\ errors_shown[s] > 0 => shown'[s] = shown[s] ]_vars

\* C12 (as claimed): a send that ended with a status other than 200 or with
\* an exception of requests.post or iter_lines has, once its coroutines have
\* run, put one error entry into the transcript and committed no message.
C12_TransportFailureShowsError ==
    \A s \in Streams :
        (Settled(s) /\ result[s] \in {"status", "exception"}) =>
            /\ errors_shown[s] = 1
            /\ committed[s] = <<>>

\* C13 (as claimed): the ids of the sessions in the store are pairwise
\* distinct.
C13_SessionIdsDistinct ==
    \A i, j \in 1..Len(chat_sessions) :
        i # j => chat_sessions[i].id # chat_sessions[j].id

\* A step of the running application that adds a session to the store.
CreateStep ==
    /\ running = "on" /\ running' = "on"
    /\ Len(chat_sessions') = Len(chat_sessions) + 1

\* C14: New Chat gives the new session the id count + 1 and no messages, puts
\* it at the end of the store, leaves the other sessions as they were and
\* makes it the active session.
C14_CreateAssignsCountPlusOne ==
    [][ CreateStep =>
          LET n == Len(chat_sessions)
          IN  /\ chat_sessions'[n + 1].id = n + 1
              /\ chat_sessions'[n + 1].messages = <<>>
              /\ SubSeq(chat_sessions', 1, n) = chat_sessions
              /\ current_chat_id' = n + 1 ]_vars

\* Chats 1 and 2 were created, chat 1 deleted, and New Chat pressed again.
C14_Witness ==
    /\ running = "on"
    /\ Len(chat_sessions) = 2
    /\ chat_sessions[1].id = 2 /\ chat_sessions[2].id = 2
    /\ chat_sessions[1].name = << "C", "h", "a", "t", " ", "2" >>
    /\ chat_sessions[2].messages = <<>>
    /\ current_chat_id = 2
    /\ chat_history = <<>>

\* C15: while the application runs, current_chat_id is None or the id of a
\* session in the store.
C15_ActivePointerValid ==
    running = "on" =>
        (current_chat_id = None \/ FindSession(chat_sessions, current_chat_id) # 0)

\* The active session was deleted while other sessions remain: the pointer is
\* unset and the transcript holds the notice of the deletion only.
C15_Witness ==
    /\ running = "on"
    /\ current_chat_id = None
    /\ chat_sessions # <<>>
    /\ file = FileOf(chat_sessions, "whole")
    /\ chat_history = << ErrorContainer(<<"Chat deleted successfully!">>) >>

\* A step that changes the messages of the store's sessions and not their
\* number.
AppendStep ==
    /\ Len(chat_sessions') = Len(chat_sessions)
    /\ chat_sessions' # chat_sessions

\* C16 (as claimed): add_message_to_session never ends without an error when
\* no session has the id current_chat_id; when one has, the message becomes
\* the last of that session and nothing else in the store changes.
C16_AppendFailsWithoutSession ==
    [][ /\ last_append' # "ignored"
        /\ AppendStep =>
              LET i == FindSession(chat_sessions, current_chat_id)
              IN  /\ i # 0
                  /\ Len(chat_sessions'[i].messages) = Len(chat_sessions[i].messages) + 1
                  /\ SubSeq(chat_sessions'[i].messages, 1, Len(chat_sessions[i].messages))
                        = chat_sessions[i].messages
                  /\ \A j \in 1..Len(chat_sessions) :
                        j # i => chat_sessions'[j] = chat_sessions[j] ]_vars

\* A step of the running application that removes sessions from the store.
DeleteStep ==
    /\ running = "on" /\ running' = "on"
    /\ Len(chat_sessions') < Len(chat_sessions)

\* C17 (as claimed): deleting the chat with some id leaves the other sessions
\* in their order; if it was the active one the pointer is unset and the
\* transcript empty afterwards, otherwise pointer and transcript are as before.
C17_DeleteFrame ==
    [][ DeleteStep =>
          \E chat_id \in ListedIds :
              /\ chat_sessions' = WithoutId(chat_sessions, chat_id)
              /\ IF current_chat_id = chat_id
                 THEN current_chat_id' = None /\ chat_history' = <<>>
                 ELSE current_chat_id' = current_chat_id /\ chat_history' = chat_history
      ]_vars

\* C18 (as claimed): once the store has been changed or saved, the session
\* list in the file equals the session list in memory.
C18_FileEqualsStore ==
    (file.exists \/ chat_sessions # <<>>) =>
        /\ file.exists
        /\ LoadOutcome(file).how = "ok"
        /\ LoadOutcome(file).sessions = chat_sessions

\* The application has just been started on the file an earlier run saved.
StartedOn(x) ==
    /\ running = "on" /\ nops = 0
    /\ file = FileOf(x, "whole")

\* json.load(json.dump(x)) is x.
RoundTrip(x) ==
    LET r == Loads(Dumps(x))
    IN  r.ok /\ r.val.t = "list" /\ SessionsOfJson(r.val) = x

\* C19 (as claimed): what json.load reads from what json.dump wrote is the
\* session list that was dumped, for every session list: the store as it is
\* now, and the store the application has after starting on a saved file.
C19_SaveLoadRoundTrip ==
    /\ RoundTrip(chat_sessions)
    /\ \A x \in StoredSessionLists : StartedOn(x) => chat_sessions = x

\* No text of the store holds a high surrogate right before a low surrogate.
NoSplitPair(x) ==
    \A i \in 1..Len(x) : \A j \in 1..Len(x[i].messages) :
        LET t == x[i].messages[j].text
        IN  \A k \in 1..(Len(t) - 1) : ~(t[k] = HighSurrogate /\ t[k + 1] = LowSurrogate)

\* C19 (amended): the round trip yields the session list that was dumped
\* whenever no text of it holds a high surrogate right before a low surrogate.
C19_RoundTripWithoutSplitPair ==
    /\ NoSplitPair(chat_sessions) => RoundTrip(chat_sessions)
    /\ \A x \in StoredSessionLists :
          (NoSplitPair(x) /\ StartedOn(x)) => chat_sessions = x

\* Started on a file whose texts need every escape; two sessions, in order.
C19_Witness ==
    \E x \in StoredSessionLists :
        /\ StartedOn(x)
        /\ chat_sessions = x
        /\ Len(x) = 2
        /\ Len(x[1].messages) = 2
        /\ x[1].messages[2].text = << "a", "\\", "n" >>
        /\ x[2].messages = << StoredMessage("user", << "\"" >>) >>
        /\ Len(Content(file)) > Len(Dumps(<< x[1] >>))

\* A step of the running application that saves the store.
SaveStep ==
    /\ running = "on" /\ running' = "on"
    /\ Len(chat_sessions') # Len(chat_sessions)

\* C20 (as claimed): the application comes up whatever the file holds, with
\* an empty store and no active session when the file is missing or cannot be
\* loaded; and a save that fails leaves the new chat or the deletion in place.
C20_PersistenceFailuresNonFatal ==
    [][ /\ running' # "crashed"
        /\ (running = "off" /\ running' = "on" /\ LoadOutcome(file).sessions = <<>>) =>
              (chat_sessions' = <<>> /\ current_chat_id' = None)
        /\ (SaveStep /\ disk # "ok") =>
              \/ /\ chat_sessions' = Append(chat_sessions, NewChat(chat_sessions))
                 /\ current_chat_id' = NewChat(chat_sessions).id
                 /\ chat_history' = <<>>
              \/ \E chat_id \in ListedIds :
                    /\ chat_sessions' = WithoutId(chat_sessions, chat_id)
                    /\ current_chat_id' = PointerAfterDelete(current_chat_id, chat_id) ]_vars

\* A step of a background reader thread (process): the thread moves on, takes
\* a line, or appends a character to full_response.
ReaderActs ==
    \E s \in Streams :
        \/ pc[s] # "idle" /\ pc'[s] # pc[s]
        \/ recv'[s] # recv[s]
        \/ text'[s] # text[s]

\* C21 (as claimed): no step of a reader thread changes the session store or
\* the controls of the transcript; the thread only queues coroutines on the UI
\* loop.  Claimed for both copies.
C21_ReaderNeverMutates ==
    [][ ReaderActs =>
          /\ chat_sessions' = chat_sessions
          /\ chat_history' = chat_history ]_vars

\* C22: the messages of a session are only ever appended to.  A step that
\* removes sessions removes the sessions with one id and leaves the others as
\* they are; every other step (send, stream event, load, clear, settings
\* refresh, new chat) leaves each session its id and its messages, in order,
\* as the first messages of its list.
C22_MessagesAppendOnly ==
    [][ IF Len(chat_sessions') < Len(chat_sessions)
        THEN \E chat_id \in ListedIds : chat_sessions' = WithoutId(chat_sessions, chat_id)
        ELSE \A i \in 1..Len(chat_sessions) :
                /\ chat_sessions'[i].id = chat_sessions[i].id
                /\ IsPrefix(chat_sessions[i].messages, chat_sessions'[i].messages)
      ]_vars

\* The response was committed after the prompt and the chat displayed again
\* (load or settings refresh) after other operations on the view.
C22_Witness ==
    \E s \in Streams :
        /\ Settled(s)
        /\ nops >= 3
        /\ Len(chat_sessions) = 1
        /\ chat_sessions[1].messages =
              << [sender |-> "user", text |-> << "h", "i" >>, timestamp |-> Now],
                 [sender |-> "ai", text |-> << "b", "c" >>, timestamp |-> Now] >>
        /\ chat_history = MessageRows(chat_sessions[1].messages)

\* The terminal state of a stream, read off how its reader ended: Completed
\* when the transport was exhausted, Failed on an error fragment, a status
\* other than 200 or an exception; "none" while it is idle or Streaming.
Terminal(s) ==
    CASE result[s] = "none" -> "none"
      [] result[s] = "exhausted" -> "Completed"
      [] OTHER -> "Failed"

\* C23: every started stream ends: its reader thread returns and its queued
\* coroutines run (Settled), it stays so, its terminal state is set once and
\* never changes, a settled stream has one, and no stream both commits a
\* message and shows an error entry.
C23_StreamReachesOneTerminalState ==
    /\ \A s \in Streams : (pc[s] # "idle") ~> Settled(s)
    /\ [][ \A s \in Streams :
             /\ Settled(s) => Settled(s)'
             /\ Terminal(s) # "none" => Terminal(s)' = Terminal(s) ]_vars
    /\ [](\A s \in Streams :
             /\ Settled(s) => Terminal(s) # "none"
             /\ ~(committed[s] # <<>> /\ errors_shown[s] > 0)
             /\ committed[s] # <<>> => Terminal(s) = "Completed"
             /\ errors_shown[s] > 0 => Terminal(s) = "Failed")

\* A stream that failed on its second line after a text fragment, settled.
C23_Witness ==
    \E s \in Streams :
        /\ Settled(s)
        /\ Terminal(s) = "Failed"
        /\ Len(recv[s]) = 2
        /\ recv[s][2].kind = "undecodable"
        /\ text[s] # <<>>
        /\ committed[s] = <<>>

\* C24 (as claimed): a stream appends its response only to the session that
\* was active when it was sent, the one that got its prompt.
C24_CommitToSessionOfSend ==
    \A s \in Streams :
        \A i \in 1..Len(committed[s]) : committed[s][i].id = sess_of[s]

\* The thinking spinner created by the send of stream s is in the transcript.
HasSpinner(s) ==
    \E i \in 1..Len(chat_history) :
        chat_history[i].role = "spinner" /\ chat_history[i].owner = s

\* C25 (as claimed): in Local-AI-Chat.py, once a send has passed validation
\* its thinking spinner is eventually gone from the transcript, however the
\* request ends.
C25_SpinnerEventuallyRemoved ==
    \A s \in Streams : (app = "main" /\ pc[s] # "idle") ~> ~HasSpinner(s)

\* The AI message containers stream s has created that are in the transcript.
ContainersOf(s) ==
    { i \in 1..Len(chat_history) :
        chat_history[i].role = "aimsg" /\ chat_history[i].owner = s }

\* C26 (as claimed): in Local-AI-Chat.py the transcript never holds more than
\* one AI message container of the same stream, and an update without the
\* first-chunk flag never runs before a container has been created.
C26_OneContainerPerStream ==
    app = "main" =>
        /\ \A s \in Streams : Cardinality(ContainersOf(s)) <= 1
        /\ (Ready("update") /\ ~Head(tasks).fc) => ai_message_container # 0

\* A send that failed validation with a message; a send that started a reader.
SendRefused ==
    chat_history' = Append(chat_history, ErrorContainer(<<"Please select a model first!">>))

SendAccepted == nstreams' = nstreams + 1

\* C27 (as claimed): a refused send changes no session and starts no reader;
\* an accepted send has a model, appends the stripped, non-empty prompt as a
\* user message to the active session in the step that starts the reader;
\* and a response is committed to a session that holds a user message before it.
C27_PromptBeforeResponse ==
    [][ /\ SendRefused =>
              (chat_sessions' = chat_sessions /\ nstreams' = nstreams /\ pc' = pc)
        /\ SendAccepted =>
              /\ current_model # ""
              /\ pc[nstreams'] = "idle" /\ pc'[nstreams'] = "post"
              /\ \E input \in PromptInputs :
                    /\ Strip(input) # <<>>
                    /\ chat_sessions' =
                          AddMessage(chat_sessions, current_chat_id, "user", Strip(input))
        /\ \A s \in Streams :
              committed'[s] # committed[s] =>
                  LET c == committed'[s][Len(committed'[s])]
                      m == chat_sessions'[c.pos].messages
                  IN  \E j \in 1..(Len(m) - 1) : m[j].sender = "user" ]_vars

\* C28 (as claimed): a delete takes exactly one session out of the store and
\* leaves the others, in their order, as they were.
C28_DeleteRemovesOneSession ==
    [][ DeleteStep =>
          LET n == Len(chat_sessions)
          IN  /\ Len(chat_sessions') = n - 1
              /\ \E i \in 1..n :
                    chat_sessions' =
                        [j \in 1..(n - 1) |->
                            IF j < i THEN chat_sessions[j] ELSE chat_sessions[j + 1]]
      ]_vars

====
